---- MODULE Spec2Model ----
(***************************************************************************)
(* Model of em_lab/preprocessing.py: the corpus loader extract_sentences,  *)
(* the vocabulary builder get_token_to_index and the sequence tokenizer    *)
(* tokenize_sents.  Each function is a small state machine whose steps are *)
(* the iterations of its loop; a text is a sequence of one-character       *)
(* strings, a dict is a function, a Counter is its keys in insertion order *)
(* together with their counts.                                             *)
(***************************************************************************)
EXTENDS Integers, Sequences, FiniteSets, TLC

VARIABLES
    pc,                         \* position in the running function
    sentence_pairs,             \* List[SentencePair]
    freq_cutoff,                \* None or a natural number
    source_counter,             \* Counter of source tokens
    target_counter,             \* Counter of target tokens
    source_dict,                \* token -> index, source language
    target_dict,                \* token -> index, target language
    tokenized_sentence_pairs,   \* List[TokenizedSentencePair]
    idx,                        \* number of loop iterations completed
    file,                       \* the input file of extract_sentences
    aligments,                  \* List[LabeledAlignment] being built
    err,                        \* exception class raised, or None
    ret                         \* value returned by extract_sentences, or None

vars == <<pc, sentence_pairs, freq_cutoff, source_counter, target_counter,
          source_dict, target_dict, tokenized_sentence_pairs, idx,
          file, aligments, err, ret>>

----------------------------------------------------------------------------
(* Bounds of the model *)

MaxPairs == 2
MaxCutoff == 3
MaxIndex == 1
MaxRecords == 2
MaxAlignTokens == 3

TargetTokens == {"x", "y"}

----------------------------------------------------------------------------
(* Python values *)

\* an optional value: None, or Some(v)
None == <<>>
Some(v) == <<v>>
Value(o) == o[1]

Range(s) == {s[i] : i \in DOMAIN s}

SeqsUpTo(S, n) == UNION {[1..k -> S] : k \in 0..n}

\* the concatenation of a list of lists
RECURSIVE Flatten(_)
Flatten(ss) == IF ss = <<>> THEN <<>> ELSE Head(ss) \o Flatten(Tail(ss))

EmptyDict == <<>>

\* SentencePair(source, target)
SentencePair(source, target) == [source |-> source, target |-> target]

\* TokenizedSentencePair(source_tokens, target_tokens)
TokenizedSentencePair(s, t) == [source_tokens |-> s, target_tokens |-> t]

\* Counter(): no keys
EmptyCounter == [keys |-> <<>>, cnt |-> EmptyDict]

\* a variant of CounterAdd that puts a new key first in the insertion order
CounterAddFront(c, t) ==
    IF t \in DOMAIN c.cnt
    THEN [c EXCEPT !.cnt[t] = @ + 1]
    ELSE [keys |-> <<t>> \o c.keys, cnt |-> (t :> 1) @@ c.cnt]

\* one element of Counter.update: a new key is appended to the insertion
\* order with count 1, a known key has its count incremented in place
CounterAdd(c, t) ==
    IF t \in DOMAIN c.cnt
    THEN [c EXCEPT !.cnt[t] = @ + 1]
    ELSE [keys |-> Append(c.keys, t), cnt |-> (t :> 1) @@ c.cnt]

\* Counter.update(iterable): the elements are counted left to right
RECURSIVE CounterUpdate(_, _)
CounterUpdate(c, tokens) ==
    IF tokens = <<>> THEN c
    ELSE CounterUpdate(CounterAdd(c, Head(tokens)), Tail(tokens))

RemoveAt(s, i) == [k \in 1..(Len(s) - 1) |-> IF k < i THEN s[k] ELSE s[k + 1]]

\* a variant of most_common that puts, among equal counts, the key inserted
\* last first
RECURSIVE most_common_last(_, _)
most_common_last(c, n) ==
    IF n <= 0 \/ c.keys = <<>> THEN <<>>
    ELSE LET i == CHOOSE i \in DOMAIN c.keys :
                    /\ \A j \in DOMAIN c.keys : c.cnt[c.keys[j]] <= c.cnt[c.keys[i]]
                    /\ \A j \in (i + 1)..Len(c.keys) : c.cnt[c.keys[j]] < c.cnt[c.keys[i]]
         IN  <<<<c.keys[i], c.cnt[c.keys[i]]>>>>
                \o most_common_last([c EXCEPT !.keys = RemoveAt(c.keys, i)], n - 1)

\* a variant of most_common that ignores n and returns every item
RECURSIVE most_common_all(_, _)
most_common_all(c, n) ==
    IF c.keys = <<>> THEN <<>>
    ELSE LET i == CHOOSE i \in DOMAIN c.keys :
                    /\ \A j \in DOMAIN c.keys : c.cnt[c.keys[j]] <= c.cnt[c.keys[i]]
                    /\ \A j \in 1..(i - 1) : c.cnt[c.keys[j]] < c.cnt[c.keys[i]]
         IN  <<<<c.keys[i], c.cnt[c.keys[i]]>>>>
                \o most_common_all([c EXCEPT !.keys = RemoveAt(c.keys, i)], n - 1)

\* Counter.most_common(n): the n largest items by count; among equal counts
\* the one inserted first comes first (heapq.nlargest is stable); no item
\* when n <= 0
RECURSIVE most_common(_, _)
most_common(c, n) ==
    IF n <= 0 \/ c.keys = <<>> THEN <<>>
    ELSE LET i == CHOOSE i \in DOMAIN c.keys :
                    /\ \A j \in DOMAIN c.keys : c.cnt[c.keys[j]] <= c.cnt[c.keys[i]]
                    /\ \A j \in 1..(i - 1) : c.cnt[c.keys[j]] < c.cnt[c.keys[i]]
         IN  <<<<c.keys[i], c.cnt[c.keys[i]]>>>>
                \o most_common([c EXCEPT !.keys = RemoveAt(c.keys, i)], n - 1)

\* a variant of Enumerate that numbers from 1
EnumerateFromOne(tokens) ==
    [t \in Range(tokens) |->
        CHOOSE i \in DOMAIN tokens :
            /\ tokens[i] = t
            /\ \A j \in (i + 1)..Len(tokens) : tokens[j] # t]

\* {token: idx for idx, token in enumerate(tokens)}: a later occurrence of a
\* key overwrites an earlier one
Enumerate(tokens) ==
    [t \in Range(tokens) |->
        (CHOOSE i \in DOMAIN tokens :
            /\ tokens[i] = t
            /\ \A j \in (i + 1)..Len(tokens) : tokens[j] # t) - 1]

\* the tokens of a list of (token, count) items
Firsts(items) == [i \in DOMAIN items |-> items[i][1]]

----------------------------------------------------------------------------
(* get_token_to_index *)

\* one iteration of the counting loop
CountPair ==
    /\ pc = "count"
    /\ idx < Len(sentence_pairs)
    /\ source_counter' = CounterUpdate(source_counter, sentence_pairs[idx + 1].source)
    /\ target_counter' = CounterUpdate(target_counter, sentence_pairs[idx + 1].target)
    /\ idx' = idx + 1
    /\ UNCHANGED <<pc, sentence_pairs, freq_cutoff, source_dict, target_dict,
                   tokenized_sentence_pairs, file, aligments, err, ret>>

\* the dictionaries of one language
BuildDict(counter, cutoff) ==
    IF cutoff = None
    THEN Enumerate(counter.keys)
    ELSE Enumerate(Firsts(most_common(counter, Value(cutoff))))

\* after the loop: build and return both dictionaries; the caller passes them
\* to tokenize_sents together with the same corpus
BuildDicts ==
    /\ pc = "count"
    /\ idx = Len(sentence_pairs)
    /\ source_dict' = BuildDict(source_counter, freq_cutoff)
    /\ target_dict' = BuildDict(target_counter, freq_cutoff)
    /\ pc' = "tokenize"
    /\ idx' = 0
    /\ UNCHANGED <<sentence_pairs, freq_cutoff, source_counter, target_counter,
                   tokenized_sentence_pairs, file, aligments, err, ret>>

----------------------------------------------------------------------------
(* tokenize_sents *)

\* a variant of AnyMissing that also rejects a sentence without tokens
AnyMissingOrEmpty(d, tokens) ==
    tokens = <<>> \/ \E i \in DOMAIN tokens : tokens[i] \notin DOMAIN d

\* any([token not in d for token in tokens])
AnyMissing(d, tokens) == \E i \in DOMAIN tokens : tokens[i] \notin DOMAIN d

\* a variant of IndexArray that fills the array back to front
IndexArrayReversed(d, tokens) ==
    [i \in DOMAIN tokens |-> d[tokens[Len(tokens) + 1 - i]]]

\* np.array([d[token] for token in tokens])
IndexArray(d, tokens) == [i \in DOMAIN tokens |-> d[tokens[i]]]

\* one iteration of the loop: the pair is skipped or its arrays are appended
TokenizePair ==
    /\ pc = "tokenize"
    /\ idx < Len(sentence_pairs)
    /\ LET sentence_pair == sentence_pairs[idx + 1]
       IN  IF AnyMissing(source_dict, sentence_pair.source)
           THEN UNCHANGED tokenized_sentence_pairs
           ELSE IF AnyMissing(target_dict, sentence_pair.target)
           THEN UNCHANGED tokenized_sentence_pairs
           ELSE tokenized_sentence_pairs' =
                    Append(tokenized_sentence_pairs,
                           TokenizedSentencePair(
                               IndexArray(source_dict, sentence_pair.source),
                               IndexArray(target_dict, sentence_pair.target)))
    /\ idx' = idx + 1
    /\ UNCHANGED <<pc, sentence_pairs, freq_cutoff, source_counter, target_counter,
                   source_dict, target_dict, file, aligments, err, ret>>

TokenizeReturn ==
    /\ pc = "tokenize"
    /\ idx = Len(sentence_pairs)
    /\ pc' = "done"
    /\ UNCHANGED <<sentence_pairs, freq_cutoff, source_counter, target_counter,
                   source_dict, target_dict, tokenized_sentence_pairs, idx,
                   file, aligments, err, ret>>

----------------------------------------------------------------------------
(* Texts: str.split, re.findall, int *)

Whitespace == {" ", "\t", "\n"}
Digits == <<"0", "1", "2", "3", "4", "5", "6", "7", "8", "9">>
IsDigit(ch) == \E i \in DOMAIN Digits : Digits[i] = ch

\* length of the longest run of non-whitespace characters starting at s
RECURSIVE WordRun(_, _)
WordRun(text, s) ==
    IF s > Len(text) \/ text[s] \in Whitespace THEN 0 ELSE 1 + WordRun(text, s + 1)

\* str.split() from position s: the maximal runs of non-whitespace characters
RECURSIVE SplitFrom(_, _)
SplitFrom(text, s) ==
    IF s > Len(text) THEN <<>>
    ELSE IF text[s] \in Whitespace THEN SplitFrom(text, s + 1)
    ELSE LET n == WordRun(text, s)
         IN  <<SubSeq(text, s, s + n - 1)>> \o SplitFrom(text, s + n)

split(text) == SplitFrom(text, 1)

\* length of the longest run of digits starting at s: what a greedy \d+ takes
RECURSIVE DigitRun(_, _)
DigitRun(text, s) ==
    IF s > Len(text) \/ ~IsDigit(text[s]) THEN 0 ELSE 1 + DigitRun(text, s + 1)

\* the non-overlapping matches of (\d+)-(\d+) from position s, left to right,
\* each as its two groups
RECURSIVE FindallFrom(_, _)
FindallFrom(text, s) ==
    IF s > Len(text) THEN <<>>
    ELSE LET n1 == DigitRun(text, s)
             n2 == DigitRun(text, s + n1 + 1)
         IN  IF /\ n1 > 0
                /\ s + n1 <= Len(text)
                /\ text[s + n1] = "-"
                /\ n2 > 0
             THEN <<<<SubSeq(text, s, s + n1 - 1),
                      SubSeq(text, s + n1 + 1, s + n1 + n2)>>>>
                      \o FindallFrom(text, s + n1 + n2 + 1)
             ELSE FindallFrom(text, s + 1)

\* a match list without its repeated elements
RECURSIVE Unique(_)
Unique(ms) ==
    IF ms = <<>> THEN <<>>
    ELSE LET init == Unique(SubSeq(ms, 1, Len(ms) - 1))
             last == ms[Len(ms)]
         IN  IF last \in Range(init) THEN init ELSE Append(init, last)

\* a variant of re_findall that keeps each match once
re_findall_unique(text) == Unique(FindallFrom(text, 1))

\* re.findall(r"(\d+)-(\d+)", text)
re_findall(text) == FindallFrom(text, 1)

\* int(digits)
RECURSIVE int(_)
int(digits) ==
    IF digits = <<>> THEN 0
    ELSE 10 * int(SubSeq(digits, 1, Len(digits) - 1))
            + ((CHOOSE i \in DOMAIN Digits : Digits[i] = digits[Len(digits)]) - 1)

\* [(int(a), int(b)) for a, b in re.findall(pattern, text)]
Links(text) ==
    LET ms == re_findall(text)
    IN  [i \in DOMAIN ms |-> <<int(ms[i][1]), int(ms[i][2])>>]

----------------------------------------------------------------------------
(* extract_sentences *)

\* LabeledAlignment(sure, possible)
LabeledAlignment(sure, possible) == [sure |-> sure, possible |-> possible]

\* A sentence record <s> is its four child elements.  sentence.find(name) is
\* None when the record has no such child, else Some(text) where text is the
\* element's .text: None for an empty element, else Some(characters).
\* file.records is the element tree of the ampersand-escaped content, and
\* file.wellformed says whether that content parses.

\* line 60 raises AttributeError: find() gave None, or .text is None
PairRaises(rec) ==
    \/ rec.english = None
    \/ Value(rec.english) = None
    \/ rec.czech = None
    \/ Value(rec.czech) = None

\* lines 63-64 raise AttributeError: find() gave None
AlignmentRaises(rec) == rec.sure = None \/ rec.possible = None

\* lines 66-74, for the .text of one alignment element
LinksOf(text) == IF text = None THEN <<>> ELSE Links(Value(text))

\* open() and read(): lines 50-51
ReadFile ==
    /\ pc = "open"
    /\ IF file.status = "ok"
       THEN pc' = "parse" /\ err' = err
       ELSE /\ pc' = "done"
            /\ err' = Some(CASE file.status = "missing" -> "FileNotFoundError"
                             [] file.status = "denied" -> "PermissionError"
                             [] OTHER -> "UnicodeDecodeError")
    /\ UNCHANGED <<sentence_pairs, freq_cutoff, source_counter, target_counter,
                   source_dict, target_dict, tokenized_sentence_pairs, idx,
                   file, aligments, ret>>

\* ET.fromstring: line 53
ParseXml ==
    /\ pc = "parse"
    /\ IF file.wellformed
       THEN pc' = "records" /\ err' = err
       ELSE pc' = "done" /\ err' = Some("ParseError")
    /\ UNCHANGED <<sentence_pairs, freq_cutoff, source_counter, target_counter,
                   source_dict, target_dict, tokenized_sentence_pairs, idx,
                   file, aligments, ret>>

\* a variant of ExtractRecord that returns the lists built so far when a
\* record cannot be read
ExtractRecordPartial ==
    /\ pc = "records"
    /\ idx < Len(file.records)
    /\ LET sentence == file.records[idx + 1]
       IN  IF PairRaises(sentence) \/ AlignmentRaises(sentence)
           THEN /\ err' = Some("AttributeError")
                /\ pc' = "done"
                /\ ret' = Some(<<sentence_pairs, aligments>>)
                /\ UNCHANGED <<sentence_pairs, aligments, idx>>
           ELSE /\ sentence_pairs' =
                    Append(sentence_pairs,
                           SentencePair(split(Value(Value(sentence.english))),
                                        split(Value(Value(sentence.czech)))))
                /\ aligments' =
                    Append(aligments,
                           LabeledAlignment(LinksOf(Value(sentence.sure)),
                                            LinksOf(Value(sentence.possible))))
                /\ idx' = idx + 1
                /\ UNCHANGED <<pc, err, ret>>
    /\ UNCHANGED <<freq_cutoff, source_counter, target_counter, source_dict,
                   target_dict, tokenized_sentence_pairs, file>>

\* one iteration of the loop over root.findall('s'): lines 59-77.  An
\* exception leaves the function: the lists are locals and nothing is returned
ExtractRecord ==
    /\ pc = "records"
    /\ idx < Len(file.records)
    /\ LET sentence == file.records[idx + 1]
       IN  IF PairRaises(sentence)
           THEN /\ err' = Some("AttributeError")
                /\ pc' = "done"
                /\ UNCHANGED <<sentence_pairs, aligments, idx>>
           ELSE /\ sentence_pairs' =
                    Append(sentence_pairs,
                           SentencePair(split(Value(Value(sentence.english))),
                                        split(Value(Value(sentence.czech)))))
                /\ IF AlignmentRaises(sentence)
                   THEN /\ err' = Some("AttributeError")
                        /\ pc' = "done"
                        /\ UNCHANGED <<aligments, idx>>
                   ELSE /\ aligments' =
                            Append(aligments,
                                   LabeledAlignment(LinksOf(Value(sentence.sure)),
                                                    LinksOf(Value(sentence.possible))))
                        /\ idx' = idx + 1
                        /\ UNCHANGED <<pc, err>>
    /\ UNCHANGED <<freq_cutoff, source_counter, target_counter, source_dict,
                   target_dict, tokenized_sentence_pairs, file, ret>>

\* return sentence_pairs, aligments: line 79
ExtractReturn ==
    /\ pc = "records"
    /\ idx = Len(file.records)
    /\ ret' = Some(<<sentence_pairs, aligments>>)
    /\ pc' = "done"
    /\ UNCHANGED <<sentence_pairs, freq_cutoff, source_counter, target_counter,
                   source_dict, target_dict, tokenized_sentence_pairs, idx,
                   file, aligments, err>>

----------------------------------------------------------------------------
(* Inputs *)

\* sentences of the corpora given to get_token_to_index
SourceSentences ==
    {<<>>, <<"a">>, <<"b">>, <<"a", "a">>, <<"a", "b">>, <<"b", "a">>,
     <<"b", "c">>, <<"c", "a">>}
TargetSentences == {<<>>, <<"x">>, <<"y", "x">>}
Pairs == {SentencePair(s, t) : s \in SourceSentences, t \in TargetSentences}
Corpora == SeqsUpTo(Pairs, MaxPairs)

\* sentences of the corpora given to tokenize_sents with arbitrary vocabularies
TokSourceTokens == {"a", "b"}
TokSourceSentences ==
    {<<>>, <<"a">>, <<"b">>, <<"a", "b">>, <<"b", "a">>}
TokPairs == {SentencePair(s, t) : s \in TokSourceSentences, t \in TargetSentences}
TokCorpora == SeqsUpTo(TokPairs, MaxPairs)

Injective(d) == \A s, t \in DOMAIN d : d[s] = d[t] => s = t

\* token -> unique number, over any subset of the tokens
Vocabularies(Tokens) ==
    UNION {{d \in [K -> 0..MaxIndex] : Injective(d)} : K \in SUBSET Tokens}

NoFile == [status |-> "missing", wellformed |-> FALSE, records |-> <<>>]

\* tokenize_sents called on any corpus with any two vocabularies
InitTok ==
    /\ pc = "tokenize"
    /\ sentence_pairs \in TokCorpora
    /\ source_dict \in Vocabularies(TokSourceTokens)
    /\ target_dict \in Vocabularies(TargetTokens)
    /\ freq_cutoff = None
    /\ source_counter = EmptyCounter
    /\ target_counter = EmptyCounter
    /\ tokenized_sentence_pairs = <<>>
    /\ idx = 0
    /\ file = NoFile
    /\ aligments = <<>>
    /\ err = None
    /\ ret = None

\* get_token_to_index called on any corpus, followed by tokenize_sents on the
\* same corpus with the dictionaries it returned
InitVocab ==
    /\ pc = "count"
    /\ sentence_pairs \in Corpora
    /\ freq_cutoff \in {None} \cup {Some(n) : n \in 1..MaxCutoff}
    /\ source_counter = EmptyCounter
    /\ target_counter = EmptyCounter
    /\ source_dict = EmptyDict
    /\ target_dict = EmptyDict
    /\ tokenized_sentence_pairs = <<>>
    /\ idx = 0
    /\ file = NoFile
    /\ aligments = <<>>
    /\ err = None
    /\ ret = None

\* texts of the elements of the sample records
EnglishTexts == {<<"a", " ", "b">>}
CzechTexts == {<<" ", "x", "\n">>}
SureTexts == {<<" ">>, <<"1", "-", "1", " ", "2", "-", "2">>}
PossibleTexts == {<<"1", "-", "2", ",", "1", "-", "2">>}

\* an element: absent, empty, or holding one of the texts
Elements(Texts) == {None, Some(None)} \cup {Some(Some(t)) : t \in Texts}

SampleRecords ==
    [english : Elements(EnglishTexts),
     czech : {None} \cup {Some(Some(t)) : t \in CzechTexts},
     sure : Elements(SureTexts),
     possible : Elements(PossibleTexts)]

\* a file that cannot be read or parsed has no records to speak of
BadFile(st) == [status |-> st, wellformed |-> FALSE, records |-> <<>>]

\* a readable, well-formed file with the given records
GoodFile(rs) == [status |-> "ok", wellformed |-> TRUE, records |-> rs]

\* alignment texts: up to MaxAlignTokens tokens, well-formed or not, each
\* followed by a separator
AlignTokens ==
    {<<"1", "-", "2">>, <<"2", "-", "1">>, <<"1", "2", "-", "0", "3">>,
     <<"1", "-", "2", "-", "1">>, <<"x", "1", "-", "2">>, <<"1", "-">>, <<"7">>, <<>>}
Separators == {<<" ">>, <<",">>}
AlignText(items) == Flatten([k \in DOMAIN items |-> items[k][1] \o items[k][2]])

\* a record whose sure element holds the text
AlignRecord(text) ==
    [english |-> Some(Some(<<"a">>)), czech |-> Some(Some(<<"x">>)),
     sure |-> Some(Some(text)), possible |-> Some(None)]

\* extract_sentences called on any of the files
InitExtract ==
    /\ pc = "open"
    /\ \/ \E st \in {"missing", "denied", "undecodable", "ok"} : file = BadFile(st)
       \/ \E rs \in SeqsUpTo(SampleRecords, MaxRecords) : file = GoodFile(rs)
       \/ \E items \in SeqsUpTo(AlignTokens \X Separators, MaxAlignTokens) :
              file = GoodFile(<<AlignRecord(AlignText(items))>>)
    /\ sentence_pairs = <<>>
    /\ aligments = <<>>
    /\ err = None
    /\ ret = None
    /\ freq_cutoff = None
    /\ source_counter = EmptyCounter
    /\ target_counter = EmptyCounter
    /\ source_dict = EmptyDict
    /\ target_dict = EmptyDict
    /\ tokenized_sentence_pairs = <<>>
    /\ idx = 0

NextExtract == ReadFile \/ ParseXml \/ ExtractRecord \/ ExtractReturn
SpecExtract == InitExtract /\ [][NextExtract]_vars

NextTok == TokenizePair \/ TokenizeReturn
SpecTok == InitTok /\ [][NextTok]_vars

NextVocab == CountPair \/ BuildDicts \/ TokenizePair \/ TokenizeReturn
SpecVocab == InitVocab /\ [][NextVocab]_vars

----------------------------------------------------------------------------
(* Properties of tokenize_sents *)

\* every token of both sentences is a key of its vocabulary
FullyCovered(p) ==
    /\ Range(p.source) \subseteq DOMAIN source_dict
    /\ Range(p.target) \subseteq DOMAIN target_dict

\* the fully covered pairs among the first n input pairs, in input order
Survivors(n) == SelectSeq(SubSeq(sentence_pairs, 1, n), FullyCovered)

\* the token whose index is v
Inverse(d, v) == CHOOSE t \in DOMAIN d : d[t] = v

\* the output pair out is the positional image of the input pair p
ImageOf(out, p) ==
    /\ DOMAIN out.source_tokens = DOMAIN p.source
    /\ DOMAIN out.target_tokens = DOMAIN p.target
    /\ \A i \in DOMAIN p.source : out.source_tokens[i] = source_dict[p.source[i]]
    /\ \A i \in DOMAIN p.target : out.target_tokens[i] = target_dict[p.target[i]]

C2_RoundTrip ==
    pc = "done" =>
        LET S == Survivors(Len(sentence_pairs))
        IN  \A k \in DOMAIN tokenized_sentence_pairs :
                LET out == tokenized_sentence_pairs[k]
                IN  /\ k \in DOMAIN S
                    /\ Len(out.source_tokens) = Len(S[k].source)
                    /\ Len(out.target_tokens) = Len(S[k].target)
                    /\ \A i \in DOMAIN out.source_tokens :
                           Inverse(source_dict, out.source_tokens[i]) = S[k].source[i]
                    /\ \A i \in DOMAIN out.target_tokens :
                           Inverse(target_dict, out.target_tokens[i]) = S[k].target[i]

C2_Witness ==
    /\ pc = "done"
    /\ \E k \in DOMAIN tokenized_sentence_pairs :
           /\ Len(tokenized_sentence_pairs[k].source_tokens) = 2
           /\ tokenized_sentence_pairs[k].source_tokens[1]
                  # tokenized_sentence_pairs[k].source_tokens[2]
           /\ Len(tokenized_sentence_pairs[k].target_tokens) = 2

----------------------------------------------------------------------------
(* Properties of get_token_to_index *)

\* all source (target) tokens of the corpus, in reading order
SourceStream == Flatten([k \in DOMAIN sentence_pairs |-> sentence_pairs[k].source])
TargetStream == Flatten([k \in DOMAIN sentence_pairs |-> sentence_pairs[k].target])

Occurrences(stream, t) == Cardinality({i \in DOMAIN stream : stream[i] = t})
FirstSeen(stream, t) ==
    CHOOSE i \in DOMAIN stream :
        stream[i] = t /\ \A j \in 1..(i - 1) : stream[j] # t

\* u is ranked before t: more frequent, or as frequent and seen first
RankedBefore(stream, u, t) ==
    \/ Occurrences(stream, u) > Occurrences(stream, t)
    \/ /\ Occurrences(stream, u) = Occurrences(stream, t)
       /\ FirstSeen(stream, u) < FirstSeen(stream, t)

Rank(stream, t) == Cardinality({u \in Range(stream) : RankedBefore(stream, u, t)})

SeenBefore(stream, t) ==
    Cardinality({u \in Range(stream) : FirstSeen(stream, u) < FirstSeen(stream, t)})

Min(a, b) == IF a < b THEN a ELSE b

Built == pc \in {"tokenize", "done"}

\* the vocabulary d is the first min(C, D) tokens of the ranking of stream
TopRanked(d, stream, C) ==
    /\ DOMAIN d = {t \in Range(stream) : Rank(stream, t) < C}
    /\ \A t \in DOMAIN d : d[t] = Rank(stream, t)
    /\ Cardinality(DOMAIN d) = Min(C, Cardinality(Range(stream)))

\* C3: with a cutoff C each vocabulary is the first min(C, D) tokens of the
\* ranking by descending frequency, ties by first-seen order, and the token
\* of rank r has index r.
C3_CutoffKeepsTopRanked ==
    (Built /\ freq_cutoff # None) =>
        /\ TopRanked(source_dict, SourceStream, Value(freq_cutoff))
        /\ TopRanked(target_dict, TargetStream, Value(freq_cutoff))

\* a cutoff of 2 over three distinct source tokens, where a dropped token is
\* as frequent as a kept one; and a cutoff above the number of target tokens
C3_Witness ==
    /\ Built
    /\ freq_cutoff = Some(2)
    /\ Cardinality(Range(SourceStream)) = 3
    /\ \E t \in DOMAIN source_dict, u \in Range(SourceStream) \ DOMAIN source_dict :
           Occurrences(SourceStream, t) = Occurrences(SourceStream, u)
    /\ \E t, u \in DOMAIN source_dict :
           /\ Occurrences(SourceStream, t) > Occurrences(SourceStream, u)
           /\ FirstSeen(SourceStream, t) > FirstSeen(SourceStream, u)
    /\ Cardinality(DOMAIN target_dict) = 1

FirstSeenOrder(d, stream) ==
    /\ DOMAIN d = Range(stream)
    /\ \A t \in DOMAIN d : d[t] = SeenBefore(stream, t)
    /\ Cardinality(DOMAIN d) = Cardinality(Range(stream))

\* C4: without a cutoff each vocabulary holds every distinct token of its
\* language, and the j-th distinct token first seen has index j.
C4_NoCutoffFirstSeenOrder ==
    (Built /\ freq_cutoff = None) =>
        /\ FirstSeenOrder(source_dict, SourceStream)
        /\ FirstSeenOrder(target_dict, TargetStream)

C4_Witness ==
    /\ Built
    /\ freq_cutoff = None
    /\ Cardinality(DOMAIN source_dict) = 3
    /\ \E t \in DOMAIN source_dict : Occurrences(SourceStream, t) = 2
    /\ Cardinality(DOMAIN target_dict) = 2

Dense(d) ==
    /\ \A s, t \in DOMAIN d : d[s] = d[t] => s = t
    /\ {d[t] : t \in DOMAIN d} = 0..(Cardinality(DOMAIN d) - 1)

\* C5: each returned vocabulary is injective with indices exactly
\* 0..size-1; with a cutoff C its size is at most min(C, D); an empty
\* corpus gives two empty vocabularies.
C5_DenseIndices ==
    Built =>
        /\ Dense(source_dict)
        /\ Dense(target_dict)
        /\ freq_cutoff # None =>
            /\ Cardinality(DOMAIN source_dict)
                   <= Min(Value(freq_cutoff), Cardinality(Range(SourceStream)))
            /\ Cardinality(DOMAIN target_dict)
                   <= Min(Value(freq_cutoff), Cardinality(Range(TargetStream)))
        /\ sentence_pairs = <<>> => (DOMAIN source_dict = {} /\ DOMAIN target_dict = {})

C5_Witness ==
    /\ Built
    /\ freq_cutoff = Some(2)
    /\ Cardinality(Range(SourceStream)) = 3
    /\ {source_dict[t] : t \in DOMAIN source_dict} = {0, 1}
    /\ {target_dict[t] : t \in DOMAIN target_dict} = {0, 1}

----------------------------------------------------------------------------
(* Property of the pipeline get_token_to_index ; tokenize_sents *)

\* the tokens the vocabulary builder retains for a stream
Retained(stream) ==
    IF freq_cutoff = None THEN Range(stream)
    ELSE {t \in Range(stream) : Rank(stream, t) < Value(freq_cutoff)}

RetainedPair(p) ==
    /\ Range(p.source) \subseteq Retained(SourceStream)
    /\ Range(p.target) \subseteq Retained(TargetStream)

\* the input pair that an output pair decodes to
Decode(out) ==
    SentencePair([i \in DOMAIN out.source_tokens |-> Inverse(source_dict, out.source_tokens[i])],
                 [i \in DOMAIN out.target_tokens |-> Inverse(target_dict, out.target_tokens[i])])

----------------------------------------------------------------------------
(* Properties of extract_sentences *)

Records == file.records
Returned == pc = "done" /\ ret # None
ReturnedPairs == Value(ret)[1]
ReturnedAlignments == Value(ret)[2]

\* the record has no source or no target text node
LacksText(rec) ==
    \/ rec.english \in {None, Some(None)}
    \/ rec.czech \in {None, Some(None)}

\* the file can be read and parsed and every record has both text nodes
Loadable ==
    /\ file.status = "ok"
    /\ file.wellformed
    /\ \A i \in DOMAIN Records : ~LacksText(Records[i])

\* the maximal runs of characters outside Seps, as <<first, last>> positions
TokenSpans(text, Seps) ==
    {sp \in (DOMAIN text) \X (DOMAIN text) :
        /\ sp[1] <= sp[2]
        /\ \A i \in sp[1]..sp[2] : text[i] \notin Seps
        /\ sp[1] = 1 \/ text[sp[1] - 1] \in Seps
        /\ sp[2] = Len(text) \/ text[sp[2] + 1] \in Seps}

\* spans in left-to-right order
InOrder(S) ==
    [k \in 1..Cardinality(S) |->
        CHOOSE sp \in S : Cardinality({q \in S : q[1] < sp[1]}) = k - 1]

\* the whitespace-separated words of a text
Words(text) ==
    LET sps == InOrder(TokenSpans(text, Whitespace))
    IN  [k \in DOMAIN sps |-> SubSeq(text, sps[k][1], sps[k][2])]

\* an alignment element that is missing, empty or blank
MissingOrEmpty(e) ==
    \/ e = None
    \/ Value(e) = None
    \/ \A i \in DOMAIN Value(Value(e)) : Value(Value(e))[i] \in Whitespace

\* C6: a record whose sure or possible field is missing or empty is loaded
\* without an error and gets an empty list for that field.
C6_MissingFieldGivesEmptyList ==
    (pc = "done" /\ Loadable) =>
        /\ err = None
        /\ ret # None
        /\ \A i \in DOMAIN Records :
               /\ MissingOrEmpty(Records[i].sure) => ReturnedAlignments[i].sure = <<>>
               /\ MissingOrEmpty(Records[i].possible) => ReturnedAlignments[i].possible = <<>>

\* the input cannot be loaded: unreadable, not well-formed, or a record
\* without a source or target text node
Unloadable ==
    \/ file.status # "ok"
    \/ ~file.wellformed
    \/ \E i \in DOMAIN Records : LacksText(Records[i])

\* C7 as stated: every failure is a ParseError, every unloadable input fails
\* with one, and a failed call returns nothing.
C7_OnlyParseError ==
    pc = "done" =>
        /\ err # None => (err = Some("ParseError") /\ ret = None)
        /\ Unloadable => err = Some("ParseError")

\* C7 as the code has it: the failure class depends on the cause, and a
\* failed call returns nothing.
C7_FailureClassByCause ==
    pc = "done" =>
        /\ file.status = "missing" => err = Some("FileNotFoundError")
        /\ file.status = "denied" => err = Some("PermissionError")
        /\ file.status = "undecodable" => err = Some("UnicodeDecodeError")
        /\ (file.status = "ok" /\ ~file.wellformed) => err = Some("ParseError")
        /\ (file.status = "ok" /\ file.wellformed
                /\ \E i \in DOMAIN Records : LacksText(Records[i]))
              => err = Some("AttributeError")
        /\ Unloadable => err # None
        /\ err # None => ret = None

\* the second record lacks a text node after the first one was read
C7_Witness ==
    /\ pc = "done"
    /\ err = Some("AttributeError")
    /\ ret = None
    /\ Len(Records) = 2
    /\ LacksText(Records[2])
    /\ Len(sentence_pairs) = 1
    /\ Len(aligments) = 1

\* the links of an alignment element as the loader should build them
ElementLinks(e) == IF MissingOrEmpty(e) THEN <<>> ELSE Links(Value(Value(e)))

\* C8: a loadable file with N records gives N sentence pairs and N
\* alignments, the i-th of each built from the i-th record.
C8_OnePairAndAlignmentPerRecord ==
    (pc = "done" /\ Loadable) =>
        /\ ret # None
        /\ Len(ReturnedPairs) = Len(Records)
        /\ Len(ReturnedAlignments) = Len(Records)
        /\ \A i \in DOMAIN Records :
               /\ ReturnedPairs[i] =
                      SentencePair(Words(Value(Value(Records[i].english))),
                                   Words(Value(Value(Records[i].czech))))
               /\ ReturnedAlignments[i] =
                      LabeledAlignment(ElementLinks(Records[i].sure),
                                       ElementLinks(Records[i].possible))

\* tokens of an alignment text: separated by whitespace or commas
AlignSeps == Whitespace \cup {","}
AlignSpans(text) == TokenSpans(text, AlignSeps)

\* the token is digits, one hyphen, digits
WellFormed(text, sp) ==
    \E h \in (sp[1] + 1)..(sp[2] - 1) :
        /\ text[h] = "-"
        /\ \A i \in sp[1]..sp[2] : i # h => IsDigit(text[i])

\* the token has a digit, a hyphen and a digit in a row somewhere
HoldsMatch(text, sp) ==
    \E h \in (sp[1] + 1)..(sp[2] - 1) :
        /\ text[h] = "-"
        /\ IsDigit(text[h - 1])
        /\ IsDigit(text[h + 1])

\* the (source_pos, target_pos) pair a well-formed token denotes
PairOf(text, sp) ==
    LET h == CHOOSE h \in sp[1]..sp[2] : text[h] = "-"
    IN  <<int(SubSeq(text, sp[1], h - 1)), int(SubSeq(text, h + 1, sp[2]))>>

\* one pair per well-formed token, in the order of the tokens
WellFormedPairs(text) ==
    LET sps == InOrder({sp \in AlignSpans(text) : WellFormed(text, sp)})
    IN  [k \in DOMAIN sps |-> PairOf(text, sps[k])]

\* the alignment texts of the file with the lists extracted from them
ExtractedLists ==
    {<<Value(Value(Records[i].sure)), ReturnedAlignments[i].sure>> :
        i \in {j \in DOMAIN Records : ~MissingOrEmpty(Records[j].sure)}}
    \cup
    {<<Value(Value(Records[i].possible)), ReturnedAlignments[i].possible>> :
        i \in {j \in DOMAIN Records : ~MissingOrEmpty(Records[j].possible)}}

\* C9 as stated: from any alignment text exactly the pairs of its
\* well-formed tokens are extracted, in order, duplicates kept.
C9_OnePairPerWellFormedToken ==
    Returned => \A tl \in ExtractedLists : tl[2] = WellFormedPairs(tl[1])

\* C9 as the code has it: the same, for texts none of whose other tokens
\* holds a digits-hyphen-digits match of its own.
C9_OnePairPerTokenNoStrayMatch ==
    Returned =>
        \A tl \in ExtractedLists :
            (\A sp \in AlignSpans(tl[1]) :
                 HoldsMatch(tl[1], sp) => WellFormed(tl[1], sp))
              => tl[2] = WellFormedPairs(tl[1])

\* a repeated link, a two-digit position and a token that is no link
C9_Witness ==
    /\ Returned
    /\ \E tl \in ExtractedLists :
           /\ Len(tl[2]) = 2
           /\ tl[2][1] = tl[2][2]
           /\ Cardinality(AlignSpans(tl[1])) = 3
           /\ \A sp \in AlignSpans(tl[1]) : HoldsMatch(tl[1], sp) => WellFormed(tl[1], sp)

====
